---- MODULE Spec2Model ----
(***************************************************************************)
(* A model of solcipher.py: the Solitaire (Pontifex) cipher.               *)
(*                                                                         *)
(* Characters are modelled by their code points (ord), strings and lists   *)
(* by sequences.  A Python list index i (0-based) is position i + 1 here.  *)
(***************************************************************************)
EXTENDS Integers, Sequences, FiniteSets, TLC

VARIABLES
    deck,     \* self.deck of the Deck the session works on
    seed,     \* the deck that Deck was constructed with
    last,     \* the last Deck operation: its name, argument, the deck before
              \* it, and what its rounds computed
    steps,    \* number of Deck operations applied so far
    peer,     \* self.deck of a second, independent Deck (the receiver's)
    pass,     \* the passphrase both Decks were built from
    text,     \* the text handed to encrypt
    cipher,   \* the value encrypt returned
    decoded,  \* the value decrypt returned
    drawn,    \* key letters drawn by the last combine_text, in order
    phase,    \* position of the cipher session
    inp,      \* the string (or card list) handed to a Deck constructor
    built,    \* what the constructor produced: a Deck or a ValueError
    keycard,  \* the local variable card of a next_key_letter call under way
    views,    \* the generators get_key_stream made on the Deck: length and i
    peerdrawn \* the key letters the second Deck returned, in order

vars == <<deck, seed, last, steps, peer, pass, text, cipher, decoded, drawn, phase, inp, built,
          keycard, views, peerdrawn>>

---------------------------------------------------------------------------
(* Program constants *)

DeckSize == 54
JokerA == 53
JokerB == 54

---------------------------------------------------------------------------
(* Bounds of the model *)

\* Deck operations applied in one behaviour of Spec
MaxSteps == 2
\* rounds one next_key_letter call may run before the model gives up on it
MaxRounds == 8
\* longest text of SpecCipher
MaxText == 3

---------------------------------------------------------------------------
(* Python list semantics *)

Min(a, b) == IF a < b THEN a ELSE b
Max(a, b) == IF a > b THEN a ELSE b

\* a slice bound as Python normalises it for a list of length n
SliceIndex(i, n) == IF i < 0 THEN Max(i + n, 0) ELSE Min(i, n)

\* s[a:b]
PySlice(s, a, b) ==
    LET lo == SliceIndex(a, Len(s))
        hi == SliceIndex(b, Len(s))
    IN  IF lo >= hi THEN <<>> ELSE SubSeq(s, lo + 1, hi)

\* s[-1]
PyLast(s) == s[Len(s)]

\* list(s): the elements of s as a list of its own
List(s) == SubSeq(s, 1, Len(s))

\* the assignment x = v followed by the statements F(x): v is evaluated
\* once, when it is assigned
Bind(v, F(_)) == CHOOSE r \in {F(x) : x \in {v}} : TRUE

---------------------------------------------------------------------------
(* Deck operations *)

\* Deck.create: list(range(1, 55))
create == List([i \in 1..DeckSize |-> i])

\* Deck.search: list.index, the 0-based index of the first occurrence
search(d, code) ==
    CHOOSE i \in 0..(Len(d) - 1) :
        /\ d[i + 1] = code
        /\ \A j \in 0..(i - 1) : d[j + 1] # code

\* Deck.get_card: min(self.deck[idx], 53)
get_card(d, idx) == Min(d[idx + 1], 53)

\* Deck.cycle_shift: self.deck.insert(0, self.deck.pop())
cycle_shift(d) == <<PyLast(d)>> \o SubSeq(d, 1, Len(d) - 1)

\* swap_down without the test for the joker being the last card
swap_down_no_wrap(d, code) ==
    Bind(List(d), LAMBDA d1 :
        LET i == search(d1, code)
            j == (i + 1) % 54
        IN  [d1 EXCEPT ![i + 1] = d1[j + 1], ![j + 1] = d1[i + 1]])

\* Deck.swap_down
swap_down(d, code) ==
    Bind(List(IF PyLast(d) = code THEN cycle_shift(d) ELSE d), LAMBDA d1 :
        LET i == search(d1, code)
            j == (i + 1) % 54
        IN  [d1 EXCEPT ![i + 1] = d1[j + 1], ![j + 1] = d1[i + 1]])

\* count_cut with y = deck[count:], the bottom card not left out of y
count_cut_bottom_twice(d, count) ==
    LET x == PySlice(d, 0, count)
        y == PySlice(d, count, Len(d))
        z == <<PyLast(d)>>
    IN  y \o x \o z

\* count_cut as a plain cut, the bottom card moving with the rest
count_cut_plain(d, count) ==
    PySlice(d, count, Len(d)) \o PySlice(d, 0, count)

\* count_cut with the count held to the cards above the bottom card
count_cut_at_most_53(d, count) ==
    LET n == Min(count, Len(d) - 1)
        x == PySlice(d, 0, n)
        y == PySlice(d, n, -1)
        z == <<PyLast(d)>>
    IN  y \o x \o z

\* Deck.count_cut: x = deck[:count]; y = deck[count:-1]; z = [deck[-1]]
count_cut(d, count) ==
    LET x == PySlice(d, 0, count)
        y == PySlice(d, count, -1)
        z == <<PyLast(d)>>
    IN  y \o x \o z

\* the triple cut taking joker A for the first joker, without sorted()
triple_cut_a_first(d) ==
    LET i1  == search(d, 53)
        i2  == search(d, 54)
        top == PySlice(d, 0, i1)
        mid == PySlice(d, i1, i2 + 1)
        bot == PySlice(d, i2 + 1, Len(d))
    IN  bot \o mid \o top

\* the triple cut of Deck.shift_cut
triple_cut(d) ==
    LET p53 == search(d, 53)
        p54 == search(d, 54)
        i1  == Min(p53, p54)
        i2  == Max(p53, p54)
        top == PySlice(d, 0, i1)
        mid == PySlice(d, i1, i2 + 1)
        bot == PySlice(d, i2 + 1, Len(d))
    IN  bot \o mid \o top

\* the count of the closing count cut of Deck.shift_cut
bottom_count(d) ==
    LET bottom == PyLast(d)
    IN  IF bottom < 53 THEN bottom ELSE 53

\* shift_cut with joker B moved down once only
shift_cut_steps_b_once(d) ==
    Bind(swap_down(d, JokerA), LAMBDA a :
    Bind(swap_down(a, JokerB), LAMBDA b :
    Bind(triple_cut(b), LAMBDA t :
        [mid |-> t, cnt |-> bottom_count(t),
         deck |-> count_cut(t, bottom_count(t))])))

\* Deck.shift_cut, with the deck after the triple cut and the count it used
shift_cut_steps(d) ==
    Bind(swap_down(d, JokerA), LAMBDA a :
    Bind(swap_down(a, JokerB), LAMBDA b1 :
    Bind(swap_down(b1, JokerB), LAMBDA b :
    Bind(triple_cut(b), LAMBDA t :
        [mid |-> t, cnt |-> bottom_count(t),
         deck |-> count_cut(t, bottom_count(t))]))))

shift_cut(d) == shift_cut_steps(d).deck

\* the loop of next_key_letter reading the card at index top - 1
RECURSIVE key_loop_top_minus_one(_, _, _, _)
key_loop_top_minus_one(d, r, trail, cards) ==
    Bind(shift_cut_steps(d), LAMBDA s :
        LET top  == get_card(s.deck, 0)
            card == get_card(s.deck, top - 1)
        IN  IF card > 52 /\ r + 1 < MaxRounds
            THEN key_loop_top_minus_one(s.deck, r + 1, Append(trail, s.deck),
                                        Append(cards, card))
            ELSE [deck |-> s.deck, mid |-> s.mid, cnt |-> s.cnt, card |-> card,
                  trail |-> Append(trail, s.deck), cards |-> Append(cards, card),
                  capped |-> card > 52])

\* the while loop of Deck.next_key_letter, from its round number r + 1 on:
\* trail lists the deck after each round run so far, cards the card each of
\* them selected.  The code's loop has no cap: the model stops after
\* MaxRounds rounds and reports that with capped.
RECURSIVE key_loop(_, _, _, _)
key_loop(d, r, trail, cards) ==
    Bind(shift_cut_steps(d), LAMBDA s :
        LET top  == get_card(s.deck, 0)
            card == get_card(s.deck, top)
        IN  IF card > 52 /\ r + 1 < MaxRounds
            THEN key_loop(s.deck, r + 1, Append(trail, s.deck), Append(cards, card))
            ELSE [deck |-> s.deck, mid |-> s.mid, cnt |-> s.cnt, card |-> card,
                  trail |-> Append(trail, s.deck), cards |-> Append(cards, card),
                  capped |-> card > 52])

\* Deck.next_key_letter: the deck it leaves and the letter it returns
next_key_letter(d) ==
    Bind(key_loop(d, 0, <<>>, <<>>), LAMBDA k :
        [deck |-> k.deck, mid |-> k.mid, cnt |-> k.cnt, card |-> k.card,
         trail |-> k.trail, cards |-> k.cards, capped |-> k.capped,
         letter |-> ((k.card - 1) % 26) + 65])

\* str.upper on one ASCII character
upper(ch) == IF ch >= 97 /\ ch <= 122 THEN ch - 32 ELSE ch

\* add_password_letter without letter.upper()
add_password_letter_as_typed(d, letter) ==
    Bind(shift_cut(d), LAMBDA cut :
        LET cnt == letter - 64
        IN  count_cut(cut, cnt))

\* Deck.add_password_letter
add_password_letter(d, letter) ==
    Bind(shift_cut(d), LAMBDA cut :
        LET cnt == upper(letter) - 64
        IN  count_cut(cut, cnt))

\* Deck.from_password: the loop over pw on the deck create() made
RECURSIVE password_loop(_, _)
password_loop(d, pw) ==
    IF pw = <<>> THEN d
    ELSE Bind(add_password_letter(d, Head(pw)), LAMBDA nxt :
             password_loop(nxt, Tail(pw)))

from_password(pw) == password_loop(create, pw)

---------------------------------------------------------------------------
(* Text combination *)

\* str.isupper on one ASCII character
isupper(ch) == ch >= 65 /\ ch <= 90

\* the test of combine_text with 'A' - 1 taken for a letter
is_letter_from_at(ch) == (64 <= ch /\ ch <= 90) \/ (97 <= ch /\ ch <= 122)

\* the test of combine_text: 'A' <= ch <= 'Z' or 'a' <= ch <= 'z'
is_letter(ch) == (65 <= ch /\ ch <= 90) \/ (97 <= ch /\ ch <= 122)

\* combine_letters adding the key whatever the sign
combine_letters_always_add(a, b, sign) ==
    LET base == IF isupper(a) THEN 65 ELSE 97
        p0   == a - base
        k1   == b - 64
        c0   == (p0 + k1) % 26
    IN  base + c0

\* combine_letters with the key letter counted from 0, like the text letter
combine_letters_key_from_zero(a, b, sign) ==
    LET base == IF isupper(a) THEN 65 ELSE 97
        p0   == a - base
        k1   == b - 65
        c0   == (p0 + sign * k1) % 26
    IN  base + c0

\* combine_letters
combine_letters(a, b, sign) ==
    LET base == IF isupper(a) THEN 65 ELSE 97
        p0   == a - base
        k1   == b - 64
        c0   == (p0 + sign * k1) % 26
    IN  base + c0

\* the for loop of combine_text; d is the deck of the Deck key_gen belongs to,
\* acc what the loop has built so far
RECURSIVE combine_loop(_, _, _, _)
combine_loop(rest, d, sign, acc) ==
    IF rest = <<>> THEN [acc EXCEPT !.deck = d]
    ELSE IF is_letter(Head(rest)) /\ ~acc.capped
         THEN Bind(next_key_letter(d), LAMBDA k :
              Bind([acc EXCEPT
                       !.out    = Append(@, combine_letters(Head(rest), k.letter, sign)),
                       !.drawn  = Append(@, k.letter),
                       !.capped = k.capped], LAMBDA more :
                  combine_loop(Tail(rest), k.deck, sign, more)))
         ELSE combine_loop(Tail(rest), d, sign, acc)

\* combine_text with key_gen a generator of the Deck whose deck is d: the
\* string returned (out), the key letters next(key_gen) gave (drawn) and the
\* deck left behind
combine_text(txt, d, sign) ==
    combine_loop(txt, d, sign,
                 [out |-> <<>>, drawn |-> <<>>, deck |-> d, capped |-> FALSE])

\* i calls of next_key_letter in a row: the letters returned and the deck left
RECURSIVE key_letters(_, _)
key_letters(d, i) ==
    IF i = 0 THEN [letters |-> <<>>, deck |-> d]
    ELSE Bind(next_key_letter(d), LAMBDA k :
         Bind(key_letters(k.deck, i - 1), LAMBDA r :
             [letters |-> <<k.letter>> \o r.letters, deck |-> r.deck]))

\* get_key_stream running one round of its own when the generator is made
get_key_stream_runs_ahead(d, length, n) ==
    key_letters(next_key_letter(d).deck, IF length <= 0 THEN n ELSE Min(n, length))

\* n calls of next() on a generator Deck.get_key_stream(length) made, which
\* ends after length letters when length > 0 and never otherwise
get_key_stream(d, length, n) ==
    key_letters(d, IF length <= 0 THEN n ELSE Min(n, length))

\* encrypt drawing its key letters from a copy of the Deck
encrypt_on_copy(d, plaintext) == [combine_text(plaintext, d, 1) EXCEPT !.deck = d]

\* Deck.encrypt and Deck.decrypt: get_key_stream() makes a generator on self
\* and runs no round by itself
encrypt(d, plaintext) == combine_text(plaintext, d, 1)

decrypt(d, ciphertext) == combine_text(ciphertext, d, -1)

---------------------------------------------------------------------------
(* Card tokens *)

\* JOKERS = {53: 'A', 54: 'B'}
JOKERS == [c \in {53, 54} |-> IF c = 53 THEN 65 ELSE 66]
\* SUITS = 'cdhs'
SUITS == <<99, 100, 104, 115>>
\* VALUES = 'A23456789TJQK'
VALUES == <<65, 50, 51, 52, 53, 54, 55, 56, 57, 84, 74, 81, 75>>
\* SUITS_UNI: the code points of the club, diamond, heart and spade signs
SUITS_UNI == <<9827, 9830, 9829, 9824>>

\* _flip(iterable)[ch]: the 0-based index of ch, -1 when ch is no key
flip(iterable, ch) ==
    IF \E i \in 1..Len(iterable) : iterable[i] = ch
    THEN (CHOOSE i \in 1..Len(iterable) : iterable[i] = ch) - 1
    ELSE -1

\* REV_SUITS[ch] = (_flip(SUITS) | _flip(SUITS_UNI))[ch]
REV_SUITS(ch) == IF flip(SUITS_UNI, ch) >= 0 THEN flip(SUITS_UNI, ch) ELSE flip(SUITS, ch)

\* REV_VALUES[ch]
REV_VALUES(ch) == flip(VALUES, ch)

\* str.lower on one character (the suit signs have no case)
lower(ch) == IF ch >= 65 /\ ch <= 90 THEN ch + 32 ELSE ch

\* re.search(r'[...]', token) for a character class: the first character of
\* token in the class, 0 for no match
re_search(class, token) ==
    IF \E i \in 1..Len(token) : token[i] \in class
    THEN token[CHOOSE i \in 1..Len(token) :
                   /\ token[i] \in class
                   /\ \A j \in 1..(i - 1) : token[j] \notin class]
    ELSE 0

\* the class [A23456789TJQK]
RankClass == {VALUES[i] : i \in 1..Len(VALUES)}
\* the class [cdhsCDHS] with the four suit signs
SuitClass == {99, 100, 104, 115, 67, 68, 72, 83, 9827, 9830, 9829, 9824}

\* read_card: the code of the token, 0 when it raises ValueError
read_card(token) ==
    IF token = <<65>> THEN 53
    ELSE IF token = <<66>> THEN 54
    ELSE LET m_r == re_search(RankClass, token)
             m_s == re_search(SuitClass, token)
         IN  IF m_r # 0 /\ m_s # 0
             THEN 13 * REV_SUITS(lower(m_s)) + REV_VALUES(upper(m_r)) + 1
             ELSE 0

\* card_writer taking the rank at code % 13
card_writer_rank_of_code(code, suits) ==
    IF code \in DOMAIN JOKERS THEN <<JOKERS[code]>>
    ELSE <<VALUES[(code % 13) + 1], suits[((code - 1) \div 13) + 1]>>

\* card_writer
card_writer(code, suits) ==
    IF code \in DOMAIN JOKERS THEN <<JOKERS[code]>>
    ELSE <<VALUES[((code - 1) % 13) + 1], suits[((code - 1) \div 13) + 1]>>

---------------------------------------------------------------------------
(* Deck construction *)

ValueError(message) == [kind |-> "ValueError", deck |-> <<>>, error |-> message]

\* Deck.__init__: a Deck holding list(cards), or the ValueError raised
deck_init(cards) ==
    IF Len(cards) # 54 THEN ValueError("Deck must have 54 cards.")
    ELSE [kind |-> "Deck", deck |-> List(cards), error |-> ""]

\* \s
is_space(ch) == ch \in {9, 10, 11, 12, 13, 32}

\* the characters re.sub leaves in Deck.from_input
KeptClass == {65, 66} \cup (50..57) \cup {84, 74, 81, 75} \cup SuitClass

\* re.sub(r'[^AB2-9TJQKcdhsCDHS...\s]', '', inp)
strip_other(s) == SelectSeq(s, LAMBDA ch : ch \in KeptClass \/ is_space(ch))

\* str.strip().split(): the maximal runs of non-space characters, in order
split(s) ==
    Bind({i \in 1..Len(s) : ~is_space(s[i]) /\ (i = 1 \/ is_space(s[i - 1]))},
         LAMBDA starts :
        LET start(k) == CHOOSE i \in starts :
                            Cardinality({j \in starts : j < i}) = k - 1
            end(i) == CHOOSE j \in i..Len(s) :
                          /\ \A m \in i..j : ~is_space(s[m])
                          /\ (j = Len(s) \/ is_space(s[j + 1]))
        IN  List([k \in 1..Cardinality(starts) |->
                      SubSeq(s, start(k), end(start(k)))]))

\* tokens of Deck.from_input
input_tokens(s) == Bind(strip_other(s), LAMBDA kept : split(kept))

\* from_input without the test for duplicates
from_input_any_54(s) ==
    Bind(input_tokens(s), LAMBDA tokens :
        IF Len(tokens) # 54
        THEN ValueError("Found n cards, expected 54.")
        ELSE Bind(List([i \in 1..Len(tokens) |-> read_card(tokens[i])]), LAMBDA vals :
                 IF \E i \in 1..Len(vals) : vals[i] = 0
                 THEN ValueError("Invalid card token")
                 ELSE deck_init(vals)))

\* Deck.from_input
from_input(s) ==
    Bind(input_tokens(s), LAMBDA tokens :
        IF Len(tokens) # 54
        THEN ValueError("Found n cards, expected 54.")
        ELSE Bind(List([i \in 1..Len(tokens) |-> read_card(tokens[i])]), LAMBDA vals :
                 IF \E i \in 1..Len(vals) : vals[i] = 0
                 THEN ValueError("Invalid card token")
                 ELSE IF Cardinality({vals[i] : i \in 1..Len(vals)}) # 54
                 THEN ValueError("Duplicate card detected.")
                 ELSE deck_init(vals)))

---------------------------------------------------------------------------
(* Specification Spec: the operations of one Deck, in any order *)

Reversed(d) == List([i \in 1..Len(d) |-> d[Len(d) + 1 - i]])

\* the decks a session starts from: built by create, by from_password, or by
\* from_input from a line listing the cards in another order
StartDecks ==
    { create,
      from_password(<<75, 101, 121>>),
      get_key_stream(create, 0, 3).deck,
      Reversed(create),
      <<53, 54>> \o SubSeq(create, 1, 52),
      <<54>> \o SubSeq(create, 1, 52) \o <<53>>,
      swap_down(create, JokerA) }

\* the passphrase characters tried: A B M Y Z a m z
PassLetters == {65, 66, 77, 89, 90, 97, 109, 122}

NoRound == [op |-> "none", arg |-> 0, pre |-> <<>>, mid |-> <<>>, cnt |-> 0,
            trail |-> <<>>, cards |-> <<>>, letter |-> 0]

NoDeck == [kind |-> "none", deck |-> <<>>, error |-> ""]

Idle ==
    /\ peer = <<>> /\ pass = <<>> /\ text = <<>> /\ cipher = <<>> /\ decoded = <<>>
    /\ drawn = <<>> /\ phase = "deck" /\ inp = <<>> /\ built = NoDeck
    /\ keycard = 0 /\ views = <<>> /\ peerdrawn = <<>>

Init ==
    /\ seed \in StartDecks
    /\ deck = seed
    /\ last = NoRound
    /\ steps = 0
    /\ Idle

Others == <<seed, peer, text, cipher, decoded, drawn, phase, inp, built, keycard, views, peerdrawn>>

Record(name, a, d) ==
    [op |-> name, arg |-> a, pre |-> d, mid |-> <<>>, cnt |-> 0,
     trail |-> <<>>, cards |-> <<>>, letter |-> 0]

SwapDown ==
    \E code \in {JokerA, JokerB} :
        /\ steps < MaxSteps
        /\ deck' = swap_down(deck, code)
        /\ last' = Record("swap_down", code, deck)
        /\ steps' = steps + 1
        /\ UNCHANGED <<pass, Others>>

CycleShift ==
    /\ steps < MaxSteps
    /\ deck' = cycle_shift(deck)
    /\ last' = Record("cycle_shift", 0, deck)
    /\ steps' = steps + 1
    /\ UNCHANGED <<pass, Others>>

CountCut ==
    \E n \in 0..53 :
        /\ steps < MaxSteps
        /\ deck' = count_cut(deck, n)
        /\ last' = Record("count_cut", n, deck)
        /\ steps' = steps + 1
        /\ UNCHANGED <<pass, Others>>

ShiftCut ==
    /\ steps < MaxSteps
    /\ \E s \in {shift_cut_steps(deck)} :
           /\ deck' = s.deck
           /\ last' = [Record("shift_cut", 0, deck) EXCEPT
                          !.mid = s.mid, !.cnt = s.cnt]
    /\ steps' = steps + 1
    /\ UNCHANGED <<pass, Others>>

AddPasswordLetter ==
    \E letter \in PassLetters :
        /\ steps < MaxSteps
        /\ deck' = add_password_letter(deck, letter)
        /\ last' = Record("add_password_letter", letter, deck)
        /\ pass' = Append(pass, letter)
        /\ steps' = steps + 1
        /\ UNCHANGED Others

NextKeyLetter ==
    /\ steps < MaxSteps
    /\ \E k \in {next_key_letter(deck)} :
           /\ ~k.capped
           /\ deck' = k.deck
           /\ last' = [Record("next_key_letter", 0, deck) EXCEPT
                          !.mid = k.mid, !.cnt = k.cnt, !.trail = k.trail,
                          !.cards = k.cards, !.letter = k.letter]
    /\ steps' = steps + 1
    /\ UNCHANGED <<pass, Others>>

Next ==
    \/ SwapDown
    \/ CycleShift
    \/ CountCut
    \/ ShiftCut
    \/ AddPasswordLetter
    \/ NextKeyLetter

Spec == Init /\ [][Next]_vars

---------------------------------------------------------------------------
(* Specification SpecCipher: a sender encrypts on one Deck, a receiver     *)
(* decrypts on a Deck of its own built from the same passphrase            *)

\* strings over alphabet of length at most n
RECURSIVE Strings(_, _)
Strings(alphabet, n) ==
    IF n = 0 THEN {<<>>}
    ELSE LET shorter == Strings(alphabet, n - 1)
         IN  shorter \cup {Append(w, ch) : w \in shorter, ch \in alphabet}

\* the text characters tried: A Z a z and the neighbours of the two letter
\* ranges, @ [ ` {
TextChars == {65, 90, 97, 122, 64, 91, 96, 123}

\* the passphrases tried: none, "K", "Kz", "zebra"
Passphrases ==
    { <<>>, <<75>>, <<75, 122>>, <<122, 101, 98, 114, 97>> }

InitCipher ==
    /\ pass \in Passphrases
    /\ text \in Strings(TextChars, MaxText)
    /\ seed = create
    /\ deck = from_password(pass)
    /\ peer = from_password(pass)
    /\ last = NoRound
    /\ steps = 0
    /\ cipher = <<>> /\ decoded = <<>> /\ drawn = <<>>
    /\ phase = "keyed"
    /\ inp = <<>> /\ built = NoDeck
    /\ keycard = 0 /\ views = <<>> /\ peerdrawn = <<>>

Encrypt ==
    /\ phase = "keyed"
    /\ \E r \in {encrypt(deck, text)} :
           /\ ~r.capped
           /\ cipher' = r.out
           /\ drawn' = r.drawn
           /\ deck' = r.deck
    /\ phase' = "encrypted"
    /\ UNCHANGED <<seed, last, steps, peer, pass, text, decoded, inp, built, keycard, views, peerdrawn>>

Decrypt ==
    /\ phase = "encrypted"
    /\ \E r \in {decrypt(peer, cipher)} :
           /\ ~r.capped
           /\ decoded' = r.out
           /\ drawn' = r.drawn
           /\ peer' = r.deck
    /\ phase' = "decrypted"
    /\ UNCHANGED <<seed, last, steps, deck, pass, text, cipher, inp, built, keycard, views, peerdrawn>>

NextCipher ==
    \/ Encrypt
    \/ Decrypt

SpecCipher == InitCipher /\ [][NextCipher]_vars

---------------------------------------------------------------------------
(* Specification SpecBuild: one Deck is constructed, from a line of card   *)
(* tokens, by create, or from a list of codes                              *)

\* ' '.join(words)
RECURSIVE join(_)
join(words) ==
    IF words = <<>> THEN <<>>
    ELSE IF Len(words) = 1 THEN Head(words)
    ELSE Head(words) \o <<32>> \o join(Tail(words))

\* the cards 1..54 written with a suit alphabet; with SUITS_UNI this is the
\* token list of default_line
DeckTokens(suits) == [c \in 1..DeckSize |-> card_writer(c, suits)]

\* words put in place of, or next to, a word of such a line:
\* Ac AC cA Kh kh K<heart> A B AB 10c 2c3d Kh, ? and a line break
AltWords ==
    { <<65, 99>>, <<65, 67>>, <<99, 65>>, <<75, 104>>, <<107, 104>>,
      <<75, 9829>>, <<65>>, <<66>>, <<65, 66>>, <<49, 48, 99>>,
      <<50, 99, 51, 100>>, <<75, 104, 44>>, <<63>>, <<10>> }

\* the places edited: first, a middle one, the two jokers
EditPlaces == {1, 39, 53, 54}

Replace(words, p, w) == [words EXCEPT ![p] = w]
Remove(words, p) == SubSeq(words, 1, p - 1) \o SubSeq(words, p + 1, Len(words))
Insert(words, p, w) == SubSeq(words, 1, p - 1) \o <<w>> \o SubSeq(words, p, Len(words))

InputWords ==
    LET bases == {List(DeckTokens(SUITS)), List(DeckTokens(SUITS_UNI))}
    IN  bases
        \cup {Replace(b, p, w) : b \in bases, p \in EditPlaces, w \in AltWords}
        \cup {Insert(b, p, w) : b \in bases, p \in EditPlaces, w \in AltWords}
        \cup {Remove(b, p) : b \in bases, p \in EditPlaces}

\* the lists of codes handed to Deck(cards) directly
CardLists ==
    { create,
      Reversed(create),
      [create EXCEPT ![2] = 1],
      [create EXCEPT ![54] = 53],
      [i \in 1..DeckSize |-> 7],
      SubSeq(create, 1, 53),
      create \o <<55>> }

InitBuild ==
    /\ inp \in {join(ws) : ws \in InputWords}
    /\ built = NoDeck
    /\ phase = "input"
    /\ seed = <<>> /\ deck = <<>> /\ peer = <<>> /\ pass = <<>> /\ text = <<>>
    /\ cipher = <<>> /\ decoded = <<>> /\ drawn = <<>>
    /\ last = NoRound
    /\ steps = 0
    /\ keycard = 0 /\ views = <<>> /\ peerdrawn = <<>>

Unbuilt == <<seed, deck, steps, peer, pass, text, cipher, decoded, drawn, keycard, views, peerdrawn>>

\* Deck.from_input(inp)
FromInput ==
    /\ phase = "input"
    /\ built' = from_input(inp)
    /\ last' = Record("from_input", 0, <<>>)
    /\ phase' = "built"
    /\ UNCHANGED <<inp, Unbuilt>>

\* Deck.create()
Create ==
    /\ phase = "input"
    /\ built' = deck_init(create)
    /\ last' = Record("create", 0, <<>>)
    /\ phase' = "built"
    /\ UNCHANGED <<inp, Unbuilt>>

\* Deck(cards)
Construct ==
    \E cards \in CardLists :
        /\ phase = "input"
        /\ inp' = cards
        /\ built' = deck_init(cards)
        /\ last' = Record("Deck", 0, <<>>)
        /\ phase' = "built"
        /\ UNCHANGED Unbuilt

NextBuild ==
    \/ FromInput
    \/ Create
    \/ Construct

SpecBuild == InitBuild /\ [][NextBuild]_vars

---------------------------------------------------------------------------
(* Specification SpecKey: the calls of next_key_letter on one Deck, the    *)
(* while loop taken one test and one body at a time                        *)

\* letters one session requests
MaxLetters == 10
\* rounds of a session whose selected card is logged
MaxLog == 12

\* the list [53] * 53 + [54], which Deck.__init__ accepts
AllJokers == List([i \in 1..DeckSize |-> IF i = DeckSize THEN 54 ELSE 53])

\* the decks Deck(cards) is constructed with before the passphrase is applied
KeySeeds == {create, deck_init(AllJokers).deck}

InitKey ==
    /\ seed \in KeySeeds
    /\ pass \in Passphrases
    /\ deck = password_loop(seed, pass)
    /\ phase = "idle"
    /\ keycard = 0
    /\ steps = 0
    /\ drawn = <<>>
    /\ last = NoRound
    /\ peer = <<>> /\ text = <<>> /\ cipher = <<>> /\ decoded = <<>>
    /\ inp = <<>> /\ built = NoDeck /\ views = <<>> /\ peerdrawn = <<>>

KeyOthers == <<seed, pass, peer, text, cipher, decoded, inp, built, views, peerdrawn>>

\* next_key_letter is called: card = 54
Call ==
    /\ phase = "idle"
    /\ Len(drawn) < MaxLetters
    /\ keycard' = 54
    /\ steps' = 0
    /\ phase' = "test"
    /\ UNCHANGED <<deck, drawn, last, KeyOthers>>

\* while card > 52: the test succeeds and the body is entered
Loop ==
    /\ phase = "test"
    /\ keycard > 52
    /\ phase' = "round"
    /\ UNCHANGED <<deck, keycard, steps, drawn, last, KeyOthers>>

\* the body: self.shift_cut(); top = self.get_card(0); card = self.get_card(top).
\* steps counts the rounds of the call up to MaxRounds, last.cards logs the
\* cards the first MaxLog rounds of the session selected.
Round ==
    /\ phase = "round"
    /\ \E d \in {shift_cut(deck)} :
           \E c \in {get_card(d, get_card(d, 0))} :
               /\ deck' = d
               /\ keycard' = c
               /\ last' = [last EXCEPT !.op = "round", !.pre = deck,
                              !.cards = IF Len(@) < MaxLog THEN Append(@, c) ELSE @]
    /\ steps' = Min(steps + 1, MaxRounds)
    /\ phase' = "test"
    /\ UNCHANGED <<drawn, KeyOthers>>

\* the loop left on card 53 as well, as "while card > 53" would
ReturnBelow54 ==
    /\ phase = "test"
    /\ keycard <= 53
    /\ drawn' = Append(drawn, ((keycard - 1) % 26) + 65)
    /\ phase' = "idle"
    /\ UNCHANGED <<deck, keycard, steps, last, KeyOthers>>

\* the test fails: letter = chr((card - 1) % 26 + 65) is returned
Return ==
    /\ phase = "test"
    /\ keycard <= 52
    /\ drawn' = Append(drawn, ((keycard - 1) % 26) + 65)
    /\ phase' = "idle"
    /\ UNCHANGED <<deck, keycard, steps, last, KeyOthers>>

NextKey ==
    \/ Call
    \/ Loop
    \/ Round
    \/ Return

SpecKey == InitKey /\ [][NextKey]_vars

\* the interpreter goes on running a call that was started
LiveKey == SpecKey /\ WF_vars(NextKey)

---------------------------------------------------------------------------
(* Specification SpecPair: two Decks built by two runs of main's           *)
(* construction from the same --deck line and the same passphrase, each    *)
(* asked for key letters in requests of its own lengths                    *)

\* key letters one Deck is asked for in a session
MaxStream == 4
\* longest single request
MaxPrefix == 3

\* main: Deck.from_input(args.deck) if args.deck else Deck.create()
main_deck(line) == IF line # <<>> THEN from_input(line) ELSE deck_init(create)

\* the --deck lines tried: none, default_line, the cards in reverse order
\* written with the letters cdhs
DeckLines ==
    { <<>>,
      join(List(DeckTokens(SUITS_UNI))),
      join(Reversed(List(DeckTokens(SUITS)))) }

InitPair ==
    /\ inp \in DeckLines
    /\ pass \in Passphrases
    /\ built = main_deck(inp)
    /\ seed = built.deck
    /\ deck = password_loop(main_deck(inp).deck, pass)
    /\ peer = password_loop(main_deck(inp).deck, pass)
    /\ drawn = <<>> /\ peerdrawn = <<>>
    /\ phase = "pair"
    /\ last = NoRound
    /\ steps = 0
    /\ text = <<>> /\ cipher = <<>> /\ decoded = <<>>
    /\ keycard = 0 /\ views = <<>>

PairOthers == <<seed, pass, inp, built, phase, text, cipher, decoded, keycard, views>>

\* n letters are taken from a generator get_key_stream(length) of the first Deck
TakeFirst ==
    \E length \in 0..MaxPrefix, n \in 1..MaxPrefix :
        /\ length = 0 \/ n <= length
        /\ Len(drawn) + n <= MaxStream
        /\ \E r \in {get_key_stream(deck, length, n)} :
               /\ deck' = r.deck
               /\ drawn' = drawn \o r.letters
        /\ last' = Record("get_key_stream", n, deck)
        /\ steps' = steps + 1
        /\ UNCHANGED <<peer, peerdrawn, PairOthers>>

\* the same on the second Deck
TakeSecond ==
    \E length \in 0..MaxPrefix, n \in 1..MaxPrefix :
        /\ length = 0 \/ n <= length
        /\ Len(peerdrawn) + n <= MaxStream
        /\ \E r \in {get_key_stream(peer, length, n)} :
               /\ peer' = r.deck
               /\ peerdrawn' = peerdrawn \o r.letters
        /\ last' = Record("get_key_stream", n, peer)
        /\ steps' = steps + 1
        /\ UNCHANGED <<deck, drawn, PairOthers>>

NextPair ==
    \/ TakeFirst
    \/ TakeSecond

SpecPair == InitPair /\ [][NextPair]_vars

---------------------------------------------------------------------------
(* Specification SpecCodec: card_writer writes a code and read_card reads  *)
(* the token back, or read_card reads a token typed by hand.  inp is the   *)
(* token, keycard what read_card returned (0: it raised ValueError),       *)
(* last.arg the code written and last.pre the suit alphabet used           *)

\* tokens typed by hand: kh ah tc jd qs 2c, Kh Ah Tc Jd Qs, KH AC, K<heart>
\* k<heart>, A B a b, AB 10c cA hK 2c3d Kh, ? h and the empty token
TypedTokens ==
    { <<107, 104>>, <<97, 104>>, <<116, 99>>, <<106, 100>>, <<113, 115>>, <<50, 99>>,
      <<75, 104>>, <<65, 104>>, <<84, 99>>, <<74, 100>>, <<81, 115>>,
      <<75, 72>>, <<65, 67>>, <<75, 9829>>, <<107, 9829>>,
      <<65>>, <<66>>, <<97>>, <<98>>,
      <<65, 66>>, <<49, 48, 99>>, <<99, 65>>, <<104, 75>>, <<50, 99, 51, 100>>,
      <<75, 104, 44>>, <<63>>, <<104>>, <<>> }

InitCodec ==
    /\ phase = "codec"
    /\ inp = <<>>
    /\ keycard = 0
    /\ last = NoRound
    /\ seed = <<>> /\ deck = <<>> /\ peer = <<>> /\ pass = <<>> /\ text = <<>>
    /\ cipher = <<>> /\ decoded = <<>> /\ drawn = <<>> /\ peerdrawn = <<>>
    /\ steps = 0 /\ built = NoDeck /\ views = <<>>

CodecOthers ==
    <<seed, deck, peer, pass, text, cipher, decoded, drawn, peerdrawn, steps, built, views>>

\* card_writer(code, suits)
WriteCard ==
    \E code \in 1..DeckSize, suits \in {SUITS, SUITS_UNI} :
        /\ phase = "codec"
        /\ inp' = card_writer(code, suits)
        /\ last' = Record("card_writer", code, suits)
        /\ phase' = "written"
        /\ UNCHANGED <<keycard, CodecOthers>>

\* read_card on the token card_writer returned
ReadBack ==
    /\ phase = "written"
    /\ keycard' = read_card(inp)
    /\ phase' = "read"
    /\ UNCHANGED <<inp, last, CodecOthers>>

\* read_card(token) on a token typed by hand
ReadTyped ==
    \E token \in TypedTokens :
        /\ phase = "codec"
        /\ inp' = token
        /\ keycard' = read_card(token)
        /\ last' = Record("read_card", 0, <<>>)
        /\ phase' = "read"
        /\ UNCHANGED CodecOthers

NextCodec ==
    \/ WriteCard
    \/ ReadBack
    \/ ReadTyped

SpecCodec == InitCodec /\ [][NextCodec]_vars

---------------------------------------------------------------------------
(* Specification SpecViews: generators made by get_key_stream, and by      *)
(* encrypt and decrypt, on one Deck.  A view is a generator: its length,   *)
(* its counter i, who made it, and the places its letters have in drawn,   *)
(* the list of all key letters the Deck returned, in the order returned    *)

\* generators made on the Deck in one session
MaxViews == 2

\* the length arguments tried: the default 0 (no end) and 2
StreamLengths == {0, 2}

\* the texts encrypted: AZ and a@b
ViewTexts == { <<65, 90>>, <<97, 64, 98>> }

\* the passphrases tried: none and "Kz"
ViewPassphrases == { <<>>, <<75, 122>> }

InitViews ==
    /\ pass \in ViewPassphrases
    /\ seed = from_password(pass)
    /\ deck = seed
    /\ views = <<>>
    /\ drawn = <<>>
    /\ text = <<>> /\ cipher = <<>> /\ decoded = <<>>
    /\ phase = "views"
    /\ last = NoRound
    /\ steps = 0
    /\ peer = <<>> /\ peerdrawn = <<>> /\ inp = <<>> /\ built = NoDeck /\ keycard = 0

ViewOthers == <<seed, pass, phase, steps, peer, peerdrawn, inp, built, keycard>>

View(length, maker) == [length |-> length, i |-> 0, by |-> maker, got |-> <<>>]

\* the places in drawn of n letters returned next
Places(n) == [k \in 1..n |-> Len(drawn) + k]

\* self.get_key_stream(length): a generator is made, none of its body runs
GetKeyStream ==
    \E length \in StreamLengths :
        /\ Len(views) < MaxViews
        /\ views' = Append(views, View(length, "get_key_stream"))
        /\ last' = Record("get_key_stream", length, deck)
        /\ UNCHANGED <<deck, drawn, text, cipher, decoded, ViewOthers>>

\* next(view) on a generator still in its loop: yield self.next_key_letter()
NextLetter ==
    \E v \in 1..Len(views) :
        /\ views[v].by = "get_key_stream"
        /\ views[v].length <= 0 \/ views[v].i < views[v].length
        /\ Len(drawn) < MaxStream
        /\ \E k \in {next_key_letter(deck)} :
               /\ ~k.capped
               /\ deck' = k.deck
               /\ drawn' = Append(drawn, k.letter)
        /\ views' = [views EXCEPT ![v].i = @ + 1, ![v].got = @ \o Places(1)]
        /\ last' = Record("next", v, deck)
        /\ UNCHANGED <<text, cipher, decoded, ViewOthers>>

\* next(view) on a generator whose loop has ended: StopIteration, no round
StopIteration ==
    \E v \in 1..Len(views) :
        /\ views[v].by = "get_key_stream"
        /\ ~(views[v].length <= 0 \/ views[v].i < views[v].length)
        /\ last' = Record("StopIteration", v, deck)
        /\ UNCHANGED <<deck, drawn, views, text, cipher, decoded, ViewOthers>>

\* self.encrypt(plaintext), on a generator of its own
EncryptOnDeck ==
    \E plaintext \in ViewTexts :
        /\ cipher = <<>>
        /\ Len(views) < MaxViews
        /\ \E r \in {encrypt(deck, plaintext)} :
               /\ ~r.capped
               /\ Len(drawn) + Len(r.drawn) <= MaxStream
               /\ text' = plaintext
               /\ cipher' = r.out
               /\ deck' = r.deck
               /\ drawn' = drawn \o r.drawn
               /\ views' = Append(views, [View(0, "encrypt") EXCEPT
                                             !.i = Len(r.drawn),
                                             !.got = Places(Len(r.drawn))])
        /\ last' = Record("encrypt", 0, deck)
        /\ UNCHANGED <<decoded, ViewOthers>>

\* self.decrypt(ciphertext) on the same Deck, on another generator
DecryptOnDeck ==
    /\ cipher # <<>> /\ decoded = <<>>
    /\ Len(views) < MaxViews
    /\ \E r \in {decrypt(deck, cipher)} :
           /\ ~r.capped
           /\ Len(drawn) + Len(r.drawn) <= MaxStream
           /\ decoded' = r.out
           /\ deck' = r.deck
           /\ drawn' = drawn \o r.drawn
           /\ views' = Append(views, [View(0, "decrypt") EXCEPT
                                         !.i = Len(r.drawn),
                                         !.got = Places(Len(r.drawn))])
    /\ last' = Record("decrypt", 0, deck)
    /\ UNCHANGED <<text, cipher, ViewOthers>>

NextViews ==
    \/ GetKeyStream
    \/ NextLetter
    \/ StopIteration
    \/ EncryptOnDeck
    \/ DecryptOnDeck

SpecViews == InitViews /\ [][NextViews]_vars

---------------------------------------------------------------------------
(* Specification SpecCli: main builds the Deck from the default --deck     *)
(* line and applies the passphrase character by character; count_cut is    *)
(* then called with any count                                              *)

\* longest passphrase tried
MaxPassLen == 2
\* the counts tried are -MaxCount .. MaxCount
MaxCount == 56

\* the passphrase characters tried: A z [ { ~ space 0
CliChars == {65, 122, 91, 123, 126, 32, 48}

InitCli ==
    /\ inp = join(List(DeckTokens(SUITS_UNI)))
    /\ pass \in Strings(CliChars, MaxPassLen)
    /\ built = main_deck(inp)
    /\ seed = built.deck
    /\ deck = seed
    /\ steps = 0
    /\ phase = "keying"
    /\ last = NoRound
    /\ peer = <<>> /\ text = <<>> /\ cipher = <<>> /\ decoded = <<>> /\ drawn = <<>>
    /\ peerdrawn = <<>> /\ keycard = 0 /\ views = <<>>

CliOthers ==
    <<seed, pass, inp, built, peer, text, cipher, decoded, drawn, peerdrawn, keycard, views>>

\* main: one turn of "for ch in args.passphrase: deck.add_password_letter(ch)"
passphrase_step(d, ch) == add_password_letter(d, ch)

\* the loop of main over args.passphrase, at its character steps + 1;
\* last.trail lists the characters applied so far
PassphraseChar ==
    /\ phase = "keying"
    /\ steps < Len(pass)
    /\ deck' = passphrase_step(deck, pass[steps + 1])
    /\ last' = [Record("add_password_letter", pass[steps + 1], deck) EXCEPT
                   !.trail = Append(last.trail, pass[steps + 1])]
    /\ steps' = steps + 1
    /\ UNCHANGED <<phase, CliOthers>>

\* the loop is over (or args.passphrase is empty)
PassphraseDone ==
    /\ phase = "keying"
    /\ steps = Len(pass)
    /\ phase' = "keyed"
    /\ UNCHANGED <<deck, last, steps, CliOthers>>

\* deck.count_cut(n)
CountCutAny ==
    \E n \in (0 - MaxCount)..MaxCount :
        /\ phase = "keyed"
        /\ deck' = count_cut(deck, n)
        /\ last' = [Record("count_cut", n, deck) EXCEPT !.trail = last.trail]
        /\ phase' = "cut"
        /\ UNCHANGED <<steps, CliOthers>>

NextCli ==
    \/ PassphraseChar
    \/ PassphraseDone
    \/ CountCutAny

SpecCli == InitCli /\ [][NextCli]_vars

---------------------------------------------------------------------------
(* Properties of the Deck operations, checked under Spec *)

\* the value of a card with both jokers counted as 53
Clamp(card) == IF card >= 53 THEN 53 ELSE card

\* C1: starting from a permutation of 1..54, after any sequence of
\* swap_down(53), swap_down(54), cycle_shift, count_cut(n) with n in 0..53,
\* shift_cut, add_password_letter(L) with L a letter and next_key_letter, the
\* deck is a list of exactly 54 cards holding each code 1..54 exactly once.
\* (54 cards that between them show all 54 codes show each exactly once)
C1_PermutationKept ==
    /\ Len(deck) = 54
    /\ {deck[i] : i \in 1..Len(deck)} = 1..54

C1_Witness ==
    /\ steps >= 2
    /\ last.op = "add_password_letter" /\ last.arg = 122
    /\ last.pre # seed /\ deck # last.pre
    /\ C1_PermutationKept

\* C3 as amended: after each round of next_key_letter the candidate card is
\* the card at 0-based index top (not top - 1) of the deck that round left,
\* top being the joker-clamped value of the card at position 0, and the card
\* read there is joker-clamped too.
C3_CardAtIndexTop ==
    last.op = "next_key_letter" =>
        /\ Len(last.trail) >= 1 /\ Len(last.cards) = Len(last.trail)
        /\ deck = last.trail[Len(last.trail)]
        /\ \A r \in 1..Len(last.trail) :
               LET before == IF r = 1 THEN last.pre ELSE last.trail[r - 1]
                   after  == last.trail[r]
                   top    == Clamp(after[1])
               IN  /\ after = shift_cut(before)
                   /\ last.cards[r] = Clamp(after[top + 1])

\* C3 as stated: the candidate card is the card at 0-based index top - 1.
C3_CardAtIndexTopMinusOne ==
    last.op = "next_key_letter" =>
        \A r \in 1..Len(last.trail) :
            LET after == last.trail[r]
                top   == Clamp(after[1])
            IN  last.cards[r] = Clamp(after[(top - 1) + 1])

C3_Witness ==
    /\ last.op = "next_key_letter"
    /\ Len(last.trail) = 2
    /\ last.cards[1] = 53 /\ last.cards[2] <= 52
    /\ deck[Clamp(deck[1])] # deck[Clamp(deck[1]) + 1]

\* C16: swap_down(j) on a permutation with joker j at index i: for i < 53, j
\* is at i + 1 afterwards, the card that was at i + 1 is at i and every other
\* position is unchanged; for i = 53, j is at index 1, the former top card
\* is still at index 0 and every other card is one position lower, in the
\* same order.  This holds of every call, the second of two successive
\* swap_down(54) included.
C16_SwapDownFrame ==
    last.op = "swap_down" =>
        LET j   == last.arg
            old == last.pre
            i   == search(old, j)
        IN  /\ Len(deck) = 54
            /\ i < 53 =>
                   /\ deck[i + 2] = j
                   /\ deck[i + 1] = old[i + 2]
                   /\ \A k \in (1..54) \ {i + 1, i + 2} : deck[k] = old[k]
            /\ i = 53 =>
                   /\ deck[2] = j
                   /\ deck[1] = old[1]
                   /\ \A k \in 2..53 : deck[k + 1] = old[k]

\* joker B at index 52: the first swap_down(54) moves it to the bottom, the
\* second finds it there and wraps it to index 1
C16_Witness ==
    /\ steps = 2 /\ last.op = "swap_down" /\ last.arg = 54
    /\ seed[53] = 54
    /\ last.pre[54] = 54 /\ last.pre[53] = seed[54]
    /\ deck[2] = 54 /\ deck[1] = seed[1] /\ deck[54] = seed[54]

\* C5: for every n in 0..53, count_cut(n) yields cards[n..52] ++ cards[0..n-1]
\* ++ [cards[53]]: the length stays 54, the bottom card stays at the bottom,
\* each moved block keeps its order, and n = 0 and n = 53 change nothing.
C5_CountCutFrame ==
    last.op = "count_cut" =>
        LET n   == last.arg
            old == last.pre
        IN  /\ Len(deck) = 54
            /\ deck[54] = old[54]
            /\ \A i \in 1..(53 - n) : deck[i] = old[n + i]
            /\ \A i \in 1..n : deck[53 - n + i] = old[i]
            /\ (n \in {0, 53} => deck = old)

C5_Witness ==
    /\ last.op = "count_cut" /\ last.arg = 20 /\ steps >= 2
    /\ deck # last.pre
    /\ deck[1] = last.pre[21] /\ deck[53] = last.pre[20] /\ deck[54] = last.pre[54]

\* C6: a round moves joker A (53) down one, then joker B (54) down one twice,
\* then does the triple cut, then count_cut(n) with n the bottom card after the
\* triple cut, both jokers counted as 53; n is in 1..53, and when that bottom
\* card is a joker the count cut leaves the deck as it is.
C6_RoundSteps ==
    last.op = "shift_cut" =>
        LET a == swap_down(last.pre, 53)
            b == swap_down(swap_down(a, 54), 54)
            t == last.mid
            n == last.cnt
        IN  /\ t = triple_cut(b)
            /\ n = Clamp(t[54])
            /\ n \in 1..53
            /\ deck = count_cut(t, n)
            /\ (t[54] \in {53, 54} => deck = t)

C6_Witness ==
    /\ last.op = "shift_cut"
    /\ last.mid[54] = 54 /\ last.cnt = 53
    /\ deck = last.mid /\ deck # last.pre

\* the deck a round holds when its triple cut starts
BeforeTripleCut(d) == swap_down(swap_down(swap_down(d, 53), 54), 54)

\* C17: with lo < hi the indices of the two jokers, whichever joker is first,
\* the triple cut rebuilds the deck as (cards after hi) ++ (cards lo..hi) ++
\* (cards before lo): each of the three blocks keeps its order, the block
\* from joker to joker stays between the other two, and these change places.
C17_TripleCut ==
    last.op = "shift_cut" =>
        LET b      == BeforeTripleCut(last.pre)
            t      == last.mid
            lo     == Min(search(b, 53), search(b, 54))
            hi     == Max(search(b, 53), search(b, 54))
            after  == 53 - hi
            block  == hi - lo + 1
        IN  /\ lo < hi
            /\ Len(t) = 54
            /\ \A k \in 1..after : t[k] = b[hi + 1 + k]
            /\ \A k \in 1..block : t[after + k] = b[lo + k]
            /\ \A k \in 1..lo : t[after + block + k] = b[k]
            /\ {t[after + 1], t[after + block]} = {53, 54}

\* joker B first, cards above it and cards below joker A
C17_Witness ==
    /\ last.op = "shift_cut"
    /\ LET b == BeforeTripleCut(last.pre)
       IN  /\ search(b, 54) < search(b, 53)
           /\ search(b, 54) > 0 /\ search(b, 53) < 53
           /\ search(b, 53) - search(b, 54) > 1
           /\ last.mid # b
           /\ last.mid[54] = b[search(b, 54)]

\* C7: add_password_letter(L) is one round followed by count_cut(v), v the
\* alphabet position of L (A = 1 .. Z = 26), the same for both cases of L;
\* from_password(pw) is the standard deck with add_password_letter applied
\* once per letter of pw, in input order, on the one running deck.
C7_PasswordLetters ==
    /\ last.op = "add_password_letter" =>
           LET v == IF last.arg >= 97 THEN last.arg - 96 ELSE last.arg - 64
           IN  /\ v \in 1..26
               /\ deck = count_cut(shift_cut(last.pre), v)
    /\ (seed = create /\ steps = Len(pass)) => deck = from_password(pass)

C7_Witness ==
    /\ last.op = "add_password_letter" /\ last.arg = 109
    /\ seed = create /\ steps = Len(pass) /\ Len(pass) >= 2
    /\ pass[1] # pass[2]
    /\ deck = from_password(pass)

---------------------------------------------------------------------------
(* Properties of the text combination, checked under SpecCipher *)

IsUpper(ch) == ch \in 65..90
IsLower(ch) == ch \in 97..122
Letters(txt) == SelectSeq(txt, LAMBDA ch : IsUpper(ch) \/ IsLower(ch))

\* the letter after k in the alphabet, A after Z
LetterAfter(k) == IF k = 90 THEN 65 ELSE k + 1

\* C2: for a deck state D (the standard order, or the standard order after a
\* passphrase) and a text T of uppercase letters only, decrypt on a separate
\* Deck in state D returns T from what encrypt on a Deck in state D made of T.
C2_RoundTrip ==
    (phase = "decrypted" /\ \A i \in 1..Len(text) : IsUpper(text[i])) =>
        decoded = text

C2_Witness ==
    /\ phase = "decrypted"
    /\ text = <<90, 65, 90>> /\ pass = <<75, 122>>
    /\ cipher # text /\ decoded = text

\* the case of C4: the standard deck, no passphrase, a text of n letters A
AllA == pass = <<>> /\ \A i \in 1..Len(text) : text[i] = 65

\* C4 as stated: with the standard deck and no passphrase, encrypting n
\* letters A returns exactly the first n key letters.
C4_CipherIsKeystream ==
    (phase = "encrypted" /\ AllA) =>
        cipher = key_letters(create, Len(text)).letters

\* C4 as amended: with the standard deck and no passphrase, encrypting n
\* letters A returns the first n key letters each moved one letter on in the
\* alphabet (Z to A): for every key letter k, combine_letters('A', k, +1) is
\* the letter after k, because the key letter counts from 1.
C4_CipherIsKeystreamPlusOne ==
    /\ (phase = "encrypted" /\ AllA) =>
           LET ks == key_letters(create, Len(text)).letters
           IN  /\ Len(cipher) = Len(text)
               /\ \A i \in 1..Len(text) : cipher[i] = LetterAfter(ks[i])
    /\ \A k \in 65..90 : combine_letters(65, k, 1) = LetterAfter(k)

C4_Witness ==
    /\ phase = "encrypted" /\ AllA
    /\ text = <<65, 65, 65>>
    /\ drawn = <<68, 87, 74>> /\ cipher = <<69, 88, 75>>

\* what C8 says of one combine_text call: src its text, out its result, from
\* the deck before it and to the deck after it
OneKeyPerLetter(src, out, from, to, sign) ==
    LET ls == Letters(src)
        ks == key_letters(from, Len(ls))
    IN  /\ drawn = ks.letters
        /\ to = ks.deck
        /\ Len(out) = Len(ls)
        /\ \A i \in 1..Len(ls) :
               /\ IsUpper(ls[i]) => IsUpper(out[i])
               /\ IsLower(ls[i]) => IsLower(out[i])
               /\ (out[i] - ls[i] - sign * (drawn[i] - 64)) % 26 = 0

\* C8: combine_text draws exactly one key letter for each ASCII letter of its
\* input, in input order, and none for any other character; its output has
\* one letter per input letter, in the same order and case, and nothing else.
C8_OneKeyPerLetter ==
    /\ phase = "encrypted" =>
           OneKeyPerLetter(text, cipher, from_password(pass), deck, 1)
    /\ phase = "decrypted" =>
           OneKeyPerLetter(cipher, decoded, from_password(pass), peer, -1)

C8_Witness ==
    /\ phase = "encrypted"
    /\ text = <<97, 64, 90>>
    /\ Len(drawn) = 2 /\ Len(cipher) = 2
    /\ IsLower(cipher[1]) /\ IsUpper(cipher[2])

---------------------------------------------------------------------------
(* Properties of Deck construction, checked under SpecBuild *)

C10_EveryDeckIsPermutation ==
    built.kind = "Deck" =>
        /\ Len(built.deck) = 54
        /\ \A c \in 1..54 : \E i \in 1..54 : built.deck[i] = c

---------------------------------------------------------------------------
(* Properties of the calls of next_key_letter, checked under SpecKey and   *)
(* LiveKey                                                                 *)

C18_OneLetterPerCall ==
    [][ /\ (phase = "test" /\ keycard > 52) =>
               /\ phase' = "round" /\ drawn' = drawn /\ deck' = deck
        /\ phase = "round" =>
               /\ deck' = shift_cut(deck)
               /\ keycard' = Clamp(deck'[Clamp(deck'[1]) + 1])
               /\ drawn' = drawn /\ phase' = "test"
        /\ phase = "idle" => (phase' = "test" /\ drawn' = drawn /\ deck' = deck)
        /\ drawn' # drawn =>
               /\ phase = "test" /\ phase' = "idle" /\ steps >= 1
               /\ keycard \in 1..52
               /\ Len(last.cards) < MaxLog => keycard = last.cards[Len(last.cards)]
               /\ drawn' = Append(drawn, 65 + ((keycard - 1) % 26))
               /\ drawn'[Len(drawn')] \in 65..90
               /\ deck' = deck
      ]_vars

\* a call that ran two rounds, the first of them selecting a joker
C18_Witness ==
    /\ phase = "idle" /\ steps = 2
    /\ seed = create /\ pass = <<>>
    /\ Len(drawn) = 4 /\ drawn[4] = 88
    /\ keycard = 24
    /\ last.cards = <<4, 49, 10, 53, 24>>

\* the first ten key letters of the standard deck: D W J X H Y R F D G
ReferenceLetters == <<68, 87, 74, 88, 72, 89, 82, 70, 68, 71>>
\* the cards the first eleven rounds select
ReferenceCards == <<4, 49, 10, 53, 24, 8, 51, 44, 6, 4, 33>>

\* C15: from the standard deck with no passphrase the first ten key letters
\* are D W J X H Y R F D G, from the cards 4 49 10 24 8 51 44 6 4 33, in
\* eleven rounds: one round selects a joker and emits no letter, the round
\* between the third and the fourth letter.
C15_ReferenceKeystream ==
    (seed = create /\ pass = <<>>) =>
        /\ \A i \in 1..Min(Len(drawn), 10) : drawn[i] = ReferenceLetters[i]
        /\ \A r \in 1..Min(Len(last.cards), 11) : last.cards[r] = ReferenceCards[r]
        /\ (phase = "idle" /\ Len(drawn) <= 10) =>
               Len(last.cards) = Len(drawn) + (IF Len(drawn) >= 4 THEN 1 ELSE 0)
        /\ \A i \in 1..Min(Len(drawn), 10) :
               LET r == IF i >= 4 THEN i + 1 ELSE i
               IN  drawn[i] = ((ReferenceCards[r] - 1) % 26) + 65

C15_Witness ==
    /\ seed = create /\ pass = <<>>
    /\ phase = "idle"
    /\ drawn = ReferenceLetters
    /\ last.cards = ReferenceCards

---------------------------------------------------------------------------
(* Properties of two Decks, checked under SpecPair *)

---------------------------------------------------------------------------
(* Properties of the card codec, checked under SpecCodec *)

\* the 0-based index of ch in the string s
IndexIn(s, ch) == (CHOOSE i \in 1..Len(s) : s[i] = ch) - 1

\* C13: for every code c in 1..54 and both suit alphabets,
\* read_card(card_writer(c, alphabet)) = c, distinct codes have distinct
\* tokens, 53 and 54 are written A and B, and for c <= 52 the token is a rank
\* and a suit with c = 13 * suit_index + rank_index + 1.
C13_CodecBijection ==
    last.op = "card_writer" =>
        LET c     == last.arg
            suits == last.pre
        IN  /\ phase = "read" => keycard = c
            /\ \A other \in (1..54) \ {c} : card_writer(other, suits) # inp
            /\ c = 53 => inp = <<65>>
            /\ c = 54 => inp = <<66>>
            /\ c <= 52 =>
                   /\ Len(inp) = 2
                   /\ \E i \in 1..13 : VALUES[i] = inp[1]
                   /\ \E i \in 1..4 : suits[i] = inp[2]
                   /\ c = 13 * IndexIn(suits, inp[2]) + IndexIn(VALUES, inp[1]) + 1

C13_Witness ==
    /\ last.op = "card_writer" /\ phase = "read"
    /\ last.arg = 39 /\ last.pre = SUITS_UNI
    /\ inp = <<75, 9829>> /\ keycard = 39

\* the rank letters in lowercase: a t j q k
LowerRanks == {97, 116, 106, 113, 107}

\* C14: read_card reads the rank character whatever its case: a token of a
\* lowercase rank letter and a valid suit (kh) reads as the code of the token
\* with the rank in uppercase (Kh).
C14_RankCaseInsensitive ==
    (/\ last.op = "read_card" /\ phase = "read"
     /\ Len(inp) = 2 /\ inp[1] \in LowerRanks /\ inp[2] \in SuitClass) =>
        /\ keycard \in 1..52
        /\ keycard = read_card(<<upper(inp[1]), inp[2]>>)

---------------------------------------------------------------------------
(* Properties of the generators of one Deck, checked under SpecViews *)

\* C19: all generators get_key_stream makes on one Deck share the Deck's
\* state: making one runs no round, a new one does not restart the sequence,
\* and the letters drawn from them in any interleaving are, in draw order,
\* the consecutive letters of the Deck's one keystream, each letter going to
\* one generator only; so decrypt after encrypt on the same Deck is given
\* the letters that follow those encrypt was given.
C19_ViewsShareDeck ==
    LET ks == key_letters(seed, Len(drawn))
    IN  /\ drawn = ks.letters
        /\ deck = ks.deck
        /\ last.op \in {"get_key_stream", "StopIteration"} => deck = last.pre
        /\ \A v \in 1..Len(views) :
               /\ Len(views[v].got) = views[v].i
               /\ \A k \in 1..Len(views[v].got) :
                      /\ views[v].got[k] \in 1..Len(drawn)
                      /\ k > 1 => views[v].got[k] > views[v].got[k - 1]
               /\ views[v].length > 0 => views[v].i <= views[v].length
        /\ \A p \in 1..Len(drawn) :
               Cardinality({v \in 1..Len(views) :
                               \E k \in 1..Len(views[v].got) : views[v].got[k] = p}) = 1
        /\ \A v, w \in 1..Len(views) :
               (views[v].by = "encrypt" /\ views[w].by = "decrypt") =>
                   /\ Len(views[w].got) = Len(views[v].got)
                   /\ \A k \in 1..Len(views[w].got), m \in 1..Len(views[v].got) :
                          views[w].got[k] > views[v].got[m]

\* two generators drawn from in turn: the second got the first and the
\* fourth letter of the keystream, the first the second and the third
C19_Witness ==
    /\ Len(views) = 2 /\ pass = <<75, 122>>
    /\ views[1].by = "get_key_stream" /\ views[2].by = "get_key_stream"
    /\ views[1].got = <<2, 3>> /\ views[2].got = <<1, 4>>
    /\ drawn = key_letters(seed, 4).letters
    /\ drawn[1] # drawn[2]

---------------------------------------------------------------------------
(* Properties of count_cut with any count, checked under SpecCli *)

IsPermutation(d) ==
    /\ Len(d) = 54
    /\ \A c \in 1..54 : Cardinality({i \in 1..54 : d[i] = c}) = 1

\* d with its bottom card put under it once more
BottomTwice(d) == d \o <<d[Len(d)]>>

\* C20: count_cut(n) keeps a 54-card permutation a 54-card permutation for
\* every n <= 53, negative n included, and for every n >= 54 makes a 55-card
\* deck holding the bottom card twice; add_password_letter gets there for
\* every character whose uppercased code point minus 64 is at least 54, such
\* as '{', and main applies add_password_letter to every character of the
\* passphrase, letter or not.
C20_CountCutBeyondDeck ==
    /\ (last.op = "count_cut" /\ IsPermutation(last.pre)) =>
           /\ last.arg <= 53 => IsPermutation(deck)
           /\ last.arg >= 54 => deck = BottomTwice(last.pre)
    /\ (last.op = "add_password_letter" /\ IsPermutation(last.pre)) =>
           LET v == upper(last.arg) - 64
           IN  /\ v <= 53 => IsPermutation(deck)
               /\ v >= 54 => (Len(deck) = 55 /\ deck[55] = deck[54]
                              /\ IsPermutation(SubSeq(deck, 1, 54)))
    /\ phase = "keying" => last.trail = SubSeq(pass, 1, steps)
    /\ phase = "keyed" =>
           /\ last.trail = pass
           /\ deck = password_loop(seed, pass)
           /\ (\E i \in 1..Len(pass) : upper(pass[i]) - 64 >= 54) => Len(deck) > 54

\* the passphrase "A{": the second character makes the deck 55 cards long
C20_Witness ==
    /\ phase = "keyed"
    /\ pass = <<65, 123>>
    /\ IsPermutation(last.pre) /\ last.arg = 123
    /\ Len(deck) = 55 /\ deck[55] = deck[54]

====
